---- MODULE Spec2Model ----
(***************************************************************************)
(* Model of the Home page component of hour-logger-pro                     *)
(* (src/unnamed/part_000): the log collection delivered by the store, the  *)
(* page's React state, its event handlers, and the two memoised            *)
(* computations (daily/weekly hours, filtered and sorted history).         *)
(*                                                                         *)
(* Representation.                                                         *)
(*  - A JavaScript string is a sequence of character codes, so that        *)
(*    formatting, parsing and string comparison are computed, not assumed. *)
(*  - A Date is the number of its calendar day (days since 1970-01-01);    *)
(*    the page runs in a time zone without a clock change on the days      *)
(*    used, so two clock times on one day differ by their minutes.         *)
(*  - An hour quantity is an integer number of units of 1/6000 hour: one   *)
(*    minute is 100 units and one hundredth of an hour is 60 units, so     *)
(*    minutes / 60 and toFixed(2) are both exact on integers.              *)
(*  - null is the empty tuple and a present value v is the tuple <<v>>.    *)
(***************************************************************************)
EXTENDS Integers, Sequences, FiniteSets, TLC

VARIABLES
    user,               \* TRUE once useUser() has delivered a signed-in user
    store,              \* the user's logs collection as the store holds it
    logs,               \* useCollection data: Null, or Some(sequence of LogEntry)
    pending,            \* writes handed to the store and not yet in a snapshot
    sortOrder,          \* "asc" | "desc"
    editingLog,         \* Null or Some(LogEntry)
    filterYear,         \* "" (the empty string) or "yyyy"
    filterMonth,        \* "" or "MM"
    filterStartDate,    \* "" or "yyyy-MM-dd"
    filterEndDate,      \* "" or "yyyy-MM-dd"
    savedHolidayHours,  \* HolidayCarry, in units
    manualWeeklyHours,  \* WeeklyOverride: Null or Some(units)
    today,              \* the day new Date() returns
    dailyHours,         \* the value of the last render's useMemo
    weeklyHours,
    last                \* the handler that ran last, with the state it found

vars == <<user, store, logs, pending, sortOrder, editingLog, filterYear, filterMonth,
          filterStartDate, filterEndDate, savedHolidayHours, manualWeeklyHours,
          today, dailyHours, weeklyHours, last>>

----------------------------------------------------------------------------
(* Bounds of the model *)

\* Entries the collection holds at most.
MaxLogs == 2

\* Writes in flight at most.
MaxPending == 1

\* Document ids the store draws from.
NumIds == 2

\* Entries of a stored collection the aggregator is run on at most.
MaxAggregateLogs == 2

\* Entries of a stored collection the history view is run on at most.
MaxViewLogs == 3

\* HolidayCarry is not raised above this many units (0.6 hours).
MaxCarry == 3600

----------------------------------------------------------------------------
(* Optional values *)

Null == <<>>
Some(v) == <<v>>
Val(o) == o[1]

----------------------------------------------------------------------------
(* Strings and numbers *)

EmptyStr == <<>>

\* The character code of a decimal digit.
Digit(n) == 48 + n

\* The digit a character code stands for.
DigitVal(c) == c - 48

Pad2(n) == <<Digit(n \div 10), Digit(n % 10)>>

Pad4(n) == <<Digit(n \div 1000), Digit((n \div 100) % 10),
             Digit((n \div 10) % 10), Digit(n % 10)>>

\* String.prototype.localeCompare and the < and > of two strings, on the
\* characters of dates and times: -1, 0 or 1.
RECURSIVE StrCompare(_, _)
StrCompare(a, b) ==
    IF a = <<>> /\ b = <<>> THEN 0
    ELSE IF a = <<>> THEN -1
    ELSE IF b = <<>> THEN 1
    ELSE IF Head(a) < Head(b) THEN -1
    ELSE IF Head(a) > Head(b) THEN 1
    ELSE StrCompare(Tail(a), Tail(b))

\* Number.prototype.toFixed(2) followed by parseFloat: the nearest multiple
\* of a hundredth of an hour (60 units).  The values the page rounds are
\* never half-way between two hundredths.
Round2(x) == ((x + 30) \div 60) * 60

----------------------------------------------------------------------------
(* Calendar: what new Date, parseISO, format, startOfWeek, isWeekend do *)

\* The day number of a civil date.
DaysFromCivil(y, m, d) ==
    LET yy  == IF m <= 2 THEN y - 1 ELSE y
        era == yy \div 400
        yoe == yy - era * 400
        mp  == IF m > 2 THEN m - 3 ELSE m + 9
        doy == (153 * mp + 2) \div 5 + d - 1
        doe == yoe * 365 + yoe \div 4 - yoe \div 100 + doy
    IN  era * 146097 + doe - 719468

\* The civil date of a day number, from the day of its 400-year era (doe),
\* the year of the era (yoe), the day of the year counted from 1 March (doy)
\* and the month counted from March (mp).
CivilOf(era, yoe, doy, mp) ==
    LET m == IF mp < 10 THEN mp + 3 ELSE mp - 9
    IN  [y |-> yoe + era * 400 + (IF m <= 2 THEN 1 ELSE 0),
         m |-> m,
         d |-> doy - (153 * mp + 2) \div 5 + 1]

CivilOfDoy(era, yoe, doy) == CivilOf(era, yoe, doy, (5 * doy + 2) \div 153)

CivilOfYoe(era, doe, yoe) ==
    CivilOfDoy(era, yoe, doe - (365 * yoe + yoe \div 4 - yoe \div 100))

CivilOfDoe(era, doe) ==
    CivilOfYoe(era, doe,
               (doe - doe \div 1460 + doe \div 36524 - doe \div 146096) \div 365)

CivilFromDays(z) == CivilOfDoe((z + 719468) \div 146097, (z + 719468) % 146097)

\* Date.prototype.getDay: 0 is Sunday, 6 is Saturday.
GetDay(z) == (z + 4) % 7

\* parseISO(s) and new Date(s) of a "yyyy-MM-dd" string.
ParseISO(s) ==
    DaysFromCivil(
        DigitVal(s[1]) * 1000 + DigitVal(s[2]) * 100 + DigitVal(s[3]) * 10 + DigitVal(s[4]),
        DigitVal(s[6]) * 10 + DigitVal(s[7]),
        DigitVal(s[9]) * 10 + DigitVal(s[10]))

\* format(date, "yyyy"), format(date, "MM"), format(date, "yyyy-MM-dd").
FormatYear(z) == Pad4(CivilFromDays(z).y)

FormatMonth(z) == Pad2(CivilFromDays(z).m)

FormatCivil(c) == Pad4(c.y) \o <<45>> \o Pad2(c.m) \o <<45>> \o Pad2(c.d)

FormatDate(z) == FormatCivil(CivilFromDays(z))

\* format(x, "HH:mm") as the log form writes a clock time.
FormatTime(h, m) == Pad2(h) \o <<58>> \o Pad2(m)

\* parse(s, "HH:mm", reference): the minute of the reference day.
ParseTime(s) ==
    (DigitVal(s[1]) * 10 + DigitVal(s[2])) * 60 + DigitVal(s[4]) * 10 + DigitVal(s[5])

\* startOfWeek(date, { weekStartsOn: 1 }).
StartOfWeek(z) == z - ((GetDay(z) + 6) % 7)

\* endOfWeek(date, { weekStartsOn: 1 }).
EndOfWeek(z) == StartOfWeek(z) + 6

\* eachDayOfInterval({ start, end }).
EachDayOfInterval(start, end) == [i \in 1..(end - start + 1) |-> start + i - 1]

\* A slip of isWeekend: Saturday counts as a working day.
IsSunday(z) == GetDay(z) = 0

\* isWeekend(date).
IsWeekend(z) == GetDay(z) \in {0, 6}

----------------------------------------------------------------------------
(* Duration Calculator *)

UnitsPerHour == 60 * 100

\* minutes / 60, in units.
HoursOfMinutes(minutes) == (minutes * UnitsPerHour) \div 60

\* A LogEntry is [id, date, timeIn, timeOut, breakMinutes]; an absent or
\* empty time is the empty string.

\* A slip of calculateHoursForLog: a negative result is clamped to 0.
calculateHoursClamped(log) ==
    IF log.timeIn = EmptyStr \/ log.timeOut = EmptyStr THEN 0
    ELSE IF ParseTime(log.timeOut) - ParseTime(log.timeIn) - log.breakMinutes < 0 THEN 0
    ELSE HoursOfMinutes(ParseTime(log.timeOut) - ParseTime(log.timeIn)
                            - log.breakMinutes)

\* calculateHoursForLog(log).
calculateHoursForLog(log) ==
    IF log.timeIn = EmptyStr \/ log.timeOut = EmptyStr THEN 0
    ELSE HoursOfMinutes(ParseTime(log.timeOut) - ParseTime(log.timeIn)
                            - log.breakMinutes)

----------------------------------------------------------------------------
(* Period Aggregator: the dailyHours / weeklyHours useMemo *)

\* Array.prototype.find on the date: the first entry with that date, or Null.
RECURSIVE Find(_, _)
Find(docs, dateStr) ==
    IF docs = <<>> THEN Null
    ELSE IF Head(docs).date = dateStr THEN Some(Head(docs))
    ELSE Find(Tail(docs), dateStr)

\* `found ? calculateHoursForLog(found) : 0`.
HoursOrZero(found) == IF found # Null THEN calculateHoursForLog(Val(found)) ELSE 0

\* The callback of daysInWeek.forEach: what one day adds to weekly.
DayHours(docs, day) ==
    IF IsWeekend(day) THEN 0 ELSE HoursOrZero(Find(docs, FormatDate(day)))

\* The forEach over daysInWeek: the sum over the days from index i on.
RECURSIVE WeekSum(_, _, _)
WeekSum(docs, daysInWeek, i) ==
    IF i > Len(daysInWeek) THEN 0
    ELSE DayHours(docs, daysInWeek[i]) + WeekSum(docs, daysInWeek, i + 1)

\* A slip of the memo's function: the empty collection is no special case.
AggregateWithoutEmptyCase(docs, daily, carry, manual, now) ==
    IF manual # Null
    THEN [daily |-> daily, weekly |-> Val(manual), carry |-> carry]
    ELSE [daily  |-> daily,
          weekly |-> Round2(WeekSum(docs,
                                    EachDayOfInterval(StartOfWeek(now), EndOfWeek(now)),
                                    1) + carry),
          carry  |-> carry]

\* The memo's function below its first return, on a loaded collection: the
\* values it returns and the value of savedHolidayHours it leaves.
Aggregate(docs, daily, carry, manual, now) ==
    IF manual # Null
    THEN [daily |-> daily, weekly |-> Val(manual), carry |-> carry]
    ELSE [daily  |-> daily,
          weekly |-> Round2(IF Len(docs) > 0
                            THEN WeekSum(docs,
                                         EachDayOfInterval(StartOfWeek(now), EndOfWeek(now)),
                                         1) + carry
                            ELSE 0),
          carry  |-> IF Len(docs) = 0 /\ carry > 0 THEN 0 ELSE carry]

\* One run of the memo's function on the state of one render.
OneRun(logsNow, carry, manual, now) ==
    IF logsNow = Null THEN [daily |-> 0, weekly |-> 0, carry |-> carry]
    ELSE Aggregate(Val(logsNow), HoursOrZero(Find(Val(logsNow), FormatDate(now))),
                   carry, manual, now)

\* The memo runs again when its run set savedHolidayHours: a state change of
\* the component being rendered renders it again.
RunAgain(first, logsNow, carry, manual, now) ==
    IF first.carry # carry THEN OneRun(logsNow, first.carry, manual, now) ELSE first

\* A render.
Render(logsNow, carry, manual, now) ==
    RunAgain(OneRun(logsNow, carry, manual, now), logsNow, carry, manual, now)

----------------------------------------------------------------------------
(* Filter/Sort View: the filteredAndSortedLogs useMemo *)

\* A slip of the filter callback: the date bounds are exclusive.
KeepsExclusive(log, fYear, fMonth, fStart, fEnd) ==
    LET logDate == ParseISO(log.date)
    IN  /\ ~(fYear # EmptyStr /\ FormatYear(logDate) # fYear)
        /\ ~(fMonth # EmptyStr /\ FormatMonth(logDate) # fMonth)
        /\ ~(fStart # EmptyStr /\ StrCompare(log.date, fStart) <= 0)
        /\ ~(fEnd # EmptyStr /\ StrCompare(log.date, fEnd) >= 0)

\* The filter callback.
Keeps(log, fYear, fMonth, fStart, fEnd) ==
    LET logDate == ParseISO(log.date)
    IN  /\ ~(fYear # EmptyStr /\ FormatYear(logDate) # fYear)
        /\ ~(fMonth # EmptyStr /\ FormatMonth(logDate) # fMonth)
        /\ ~(fStart # EmptyStr /\ StrCompare(log.date, fStart) < 0)
        /\ ~(fEnd # EmptyStr /\ StrCompare(log.date, fEnd) > 0)

\* A slip of the sort callback: 'desc' compares in the direction of 'asc'.
CompareOneDirection(order, a, b) ==
    IF order = "asc" THEN ParseISO(a.date) - ParseISO(b.date)
    ELSE StrCompare(a.date, b.date)

\* The sort callback: negative, zero or positive.
Compare(order, a, b) ==
    LET dateA == ParseISO(a.date)
        dateB == ParseISO(b.date)
    IN  IF order = "asc" THEN dateA - dateB ELSE StrCompare(b.date, a.date)

\* Array.prototype.sort, which is stable: x goes before the first element
\* that the callback puts after it.
RECURSIVE InsertSorted(_, _, _)
InsertSorted(x, s, order) ==
    IF s = <<>> THEN <<x>>
    ELSE IF Compare(order, Head(s), x) > 0 THEN <<x>> \o s
    ELSE <<Head(s)>> \o InsertSorted(x, Tail(s), order)

RECURSIVE SortBy(_, _)
SortBy(s, order) ==
    IF s = <<>> THEN <<>>
    ELSE InsertSorted(s[Len(s)], SortBy(SubSeq(s, 1, Len(s) - 1), order), order)

View(logsNow, order, fYear, fMonth, fStart, fEnd) ==
    IF logsNow = Null THEN <<>>
    ELSE LET filtered == SelectSeq(Val(logsNow),
                             LAMBDA log : Keeps(log, fYear, fMonth, fStart, fEnd))
         IN  SortBy(filtered, order)

filteredAndSortedLogs ==
    View(logs, sortOrder, filterYear, filterMonth, filterStartDate, filterEndDate)

----------------------------------------------------------------------------
(* The store: the writes of addDocumentNonBlocking, setDocumentNonBlocking   *)
(* and deleteDocumentNonBlocking, and the snapshots useCollection delivers. *)

Ids == 1..NumIds

IdsOf(docs) == {docs[i].id : i \in DOMAIN docs}

WithId(id, data) ==
    [id |-> id, date |-> data.date, timeIn |-> data.timeIn,
     timeOut |-> data.timeOut, breakMinutes |-> data.breakMinutes]

\* A collection is listed in the order of its document ids.
RECURSIVE InsertById(_, _)
InsertById(docs, doc) ==
    IF docs = <<>> THEN <<doc>>
    ELSE IF doc.id < Head(docs).id THEN <<doc>> \o docs
    ELSE <<Head(docs)>> \o InsertById(Tail(docs), doc)

\* The collection after one write.  A set with { merge: true } writes the
\* fields given into the document of that id, creating it when it is absent.
ApplyWrite(docs, w) ==
    IF w.op = "add" THEN InsertById(docs, WithId(w.id, w.data))
    ELSE IF w.op = "delete" THEN SelectSeq(docs, LAMBDA d : d.id # w.id)
    ELSE IF w.id \in IdsOf(docs)
         THEN [i \in DOMAIN docs |->
                  IF docs[i].id = w.id THEN WithId(w.id, w.data) ELSE docs[i]]
         ELSE InsertById(docs, WithId(w.id, w.data))

RECURSIVE ApplyAll(_, _)
ApplyAll(docs, ws) ==
    IF ws = <<>> THEN docs ELSE ApplyAll(ApplyWrite(docs, Head(ws)), Tail(ws))

\* An id the store has not given out: addDoc draws a new one.
FreshIds ==
    Ids \ (IdsOf(store) \cup {pending[i].id : i \in DOMAIN pending}
               \cup (IF editingLog = Null THEN {} ELSE {Val(editingLog).id}))

\* The writes in flight and the collection are kept within the bounds.
Room(w) ==
    /\ Len(pending) < MaxPending
    /\ Len(ApplyAll(store, Append(pending, w))) <= MaxLogs

----------------------------------------------------------------------------
(* State changes and the render that follows them *)

\* collection(firestore, 'users', user.uid, 'logs'), or null without a user.
logsCollectionRef == IF user THEN Some("logs") ELSE Null

\* The page below the loading skeleton is shown, so its controls can be used.
PageShown == user

\* What `last` records of a handler: its name, its argument, and the state
\* it found.
Note(op, arg) ==
    last' = [op |-> op, arg |-> arg, manual |-> manualWeeklyHours,
             carry |-> savedHolidayHours,
             n |-> IF logs = Null THEN -1 ELSE Len(Val(logs))]

\* The component renders with the new values of logs, savedHolidayHours and
\* manualWeeklyHours: the memo recomputes and may reset savedHolidayHours.
Commit(newLogs, newCarry, newManual) ==
    \E r \in {Render(newLogs, newCarry, newManual, today)} :
        /\ logs' = newLogs
        /\ manualWeeklyHours' = newManual
        /\ savedHolidayHours' = r.carry
        /\ dailyHours' = r.daily
        /\ weeklyHours' = r.weekly

filters == <<filterYear, filterMonth, filterStartDate, filterEndDate>>

aggregate == <<logs, savedHolidayHours, manualWeeklyHours, dailyHours, weeklyHours>>

\* useUser() delivers the signed-in user.
AuthResolved ==
    /\ ~user
    /\ user' = TRUE
    /\ Note("auth", 0)
    /\ UNCHANGED <<store, pending, sortOrder, editingLog, filters, today, aggregate>>

\* useCollection delivers its first snapshot: the collection as stored.
FirstSnapshot ==
    /\ user
    /\ logs = Null
    /\ Commit(Some(store), savedHolidayHours, manualWeeklyHours)
    /\ Note("snapshot", 0)
    /\ UNCHANGED <<user, store, pending, sortOrder, editingLog, filters, today>>

\* useCollection delivers a later snapshot: the collection with the next
\* write in flight applied.
NextSnapshot ==
    /\ user
    /\ logs # Null
    /\ pending # <<>>
    /\ store' = ApplyWrite(store, Head(pending))
    /\ pending' = Tail(pending)
    /\ Commit(Some(store'), savedHolidayHours, manualWeeklyHours)
    /\ Note("snapshot", 0)
    /\ UNCHANGED <<user, sortOrder, editingLog, filters, today>>

\* A slip of resetManualHours: the override is left as it is.
keepManualHours == manualWeeklyHours

\* resetManualHours(): the value it sets manualWeeklyHours to.
resetManualHours == Null

handleAddOrUpdateLog(logData) ==
    /\ PageShown
    /\ IF logsCollectionRef = Null
       THEN UNCHANGED <<pending, editingLog, aggregate>>
       ELSE /\ IF editingLog # Null
               THEN LET w == [op |-> "set", id |-> Val(editingLog).id, data |-> logData]
                    IN  Room(w) /\ pending' = Append(pending, w)
               ELSE \E id \in FreshIds :
                        LET w == [op |-> "add", id |-> id, data |-> logData]
                        IN  Room(w) /\ pending' = Append(pending, w)
            /\ editingLog' = Null
            /\ Commit(logs, savedHolidayHours, resetManualHours)
    /\ Note(IF editingLog # Null THEN "update" ELSE "add", 0)
    /\ UNCHANGED <<user, store, sortOrder, filters, today>>

handleDeleteLog(id) ==
    /\ PageShown
    /\ IF logsCollectionRef = Null
       THEN UNCHANGED <<pending, aggregate>>
       ELSE LET w == [op |-> "delete", id |-> id]
            IN  /\ Room(w)
                /\ pending' = Append(pending, w)
                /\ Commit(logs, savedHolidayHours, resetManualHours)
    /\ Note("delete", 0)
    /\ UNCHANGED <<user, store, sortOrder, editingLog, filters, today>>

\* A slip of handleSaveHolidayHours: the hours replace the carry.
handleSetHolidayHours(hours) ==
    /\ PageShown
    /\ savedHolidayHours + hours <= MaxCarry
    /\ Commit(logs, Round2(hours), resetManualHours)
    /\ Note("holiday", hours)
    /\ UNCHANGED <<user, store, pending, sortOrder, editingLog, filters, today>>

handleSaveHolidayHours(hours) ==
    /\ PageShown
    /\ savedHolidayHours + hours <= MaxCarry
    /\ LET newTotal == savedHolidayHours + hours
       IN  Commit(logs, Round2(newTotal), resetManualHours)
    /\ Note("holiday", hours)
    /\ UNCHANGED <<user, store, pending, sortOrder, editingLog, filters, today>>

handleUpdateWeeklyHours(newHours) ==
    /\ PageShown
    /\ Commit(logs, savedHolidayHours, Some(newHours))
    /\ Note("manual", newHours)
    /\ UNCHANGED <<user, store, pending, sortOrder, editingLog, filters, today>>

onEdit(log) ==
    /\ PageShown
    /\ editingLog' = Some(log)
    /\ Commit(logs, savedHolidayHours, resetManualHours)
    /\ Note("edit", 0)
    /\ UNCHANGED <<user, store, pending, sortOrder, filters, today>>

clearEditing ==
    /\ PageShown
    /\ editingLog # Null
    /\ editingLog' = Null
    /\ Note("clearEditing", 0)
    /\ UNCHANGED <<user, store, pending, sortOrder, filters, today, aggregate>>

onSortToggle ==
    /\ PageShown
    /\ sortOrder' = IF sortOrder = "asc" THEN "desc" ELSE "asc"
    /\ Note("sort", 0)
    /\ UNCHANGED <<user, store, pending, editingLog, filters, today, aggregate>>

setFilterYear(y) ==
    /\ PageShown
    /\ filterYear' = y
    /\ Note("filter", 0)
    /\ UNCHANGED <<user, store, pending, sortOrder, editingLog, filterMonth,
                   filterStartDate, filterEndDate, today, aggregate>>

setFilterMonth(m) ==
    /\ PageShown
    /\ filterMonth' = m
    /\ Note("filter", 0)
    /\ UNCHANGED <<user, store, pending, sortOrder, editingLog, filterYear,
                   filterStartDate, filterEndDate, today, aggregate>>

setFilterStartDate(d) ==
    /\ PageShown
    /\ filterStartDate' = d
    /\ Note("filter", 0)
    /\ UNCHANGED <<user, store, pending, sortOrder, editingLog, filterYear,
                   filterMonth, filterEndDate, today, aggregate>>

setFilterEndDate(d) ==
    /\ PageShown
    /\ filterEndDate' = d
    /\ Note("filter", 0)
    /\ UNCHANGED <<user, store, pending, sortOrder, editingLog, filterYear,
                   filterMonth, filterStartDate, today, aggregate>>

handleClearFilters ==
    /\ PageShown
    /\ filterYear' = EmptyStr
    /\ filterMonth' = EmptyStr
    /\ filterStartDate' = EmptyStr
    /\ filterEndDate' = EmptyStr
    /\ Note("filter", 0)
    /\ UNCHANGED <<user, store, pending, sortOrder, editingLog, today, aggregate>>

\* The state of the first render: no user yet, no snapshot yet, the carry read
\* from localStorage.
InitWith(stores, carries, days) ==
    /\ user = FALSE
    /\ store \in stores
    /\ logs = Null
    /\ pending = <<>>
    /\ sortOrder = "desc"
    /\ editingLog = Null
    /\ filterYear = EmptyStr
    /\ filterMonth = EmptyStr
    /\ filterStartDate = EmptyStr
    /\ filterEndDate = EmptyStr
    /\ savedHolidayHours \in carries
    /\ manualWeeklyHours = Null
    /\ today \in days
    /\ dailyHours = 0
    /\ weeklyHours = 0
    /\ last = [op |-> "init", arg |-> 0, manual |-> Null, carry |-> savedHolidayHours, n |-> -1]

----------------------------------------------------------------------------
(* The page in use: Spec *)

\* Wednesday 2024-03-06.
Wednesday == DaysFromCivil(2024, 3, 6)

LogData(day, timeIn, timeOut, breakMinutes) ==
    [date |-> FormatDate(day), timeIn |-> timeIn, timeOut |-> timeOut,
     breakMinutes |-> breakMinutes]

\* What the log form is saved with: a day's work of 7.5 hours today, and an
\* entry of last year's last Saturday whose time out precedes its time in.
LogInputs ==
    { LogData(Wednesday, FormatTime(9, 0), FormatTime(17, 0), 30),
      LogData(DaysFromCivil(2023, 12, 30), FormatTime(17, 0), FormatTime(9, 0), 0) }

\* What the holiday pay calculator saves: 0, 0.259 and 0.501 hours.
HolidayInputs == {0, 1554, 3006}

\* What the weekly card is set to: 0 and 7.5 hours.
ManualInputs == {0, 45000}

\* What localStorage holds of an earlier session: nothing, or 0.5 hours.
StoredHolidayHours == {0, 3000}

InitialStores ==
    { <<>>, <<WithId(1, LogData(Wednesday, FormatTime(9, 0), FormatTime(17, 0), 30))>> }

Init == InitWith(InitialStores, StoredHolidayHours, {Wednesday})

Next ==
    \/ AuthResolved
    \/ FirstSnapshot
    \/ NextSnapshot
    \/ \E logData \in LogInputs : handleAddOrUpdateLog(logData)
    \/ \E i \in DOMAIN filteredAndSortedLogs : handleDeleteLog(filteredAndSortedLogs[i].id)
    \/ \E i \in DOMAIN filteredAndSortedLogs : onEdit(filteredAndSortedLogs[i])
    \/ clearEditing
    \/ \E hours \in HolidayInputs : handleSaveHolidayHours(hours)
    \/ \E newHours \in ManualInputs : handleUpdateWeeklyHours(newHours)
    \/ onSortToggle
    \/ \E y \in {EmptyStr, Pad4(2024)} : setFilterYear(y)

Spec == Init /\ [][Next]_vars

----------------------------------------------------------------------------
(* The aggregator over stored collections: SpecAggregate *)

\* Sunday 2024-03-10, the last day of the week that starts on Monday 03-04.
Sunday == DaysFromCivil(2024, 3, 10)

\* The collections of at most n entries of a set, with ids 1, 2, ...
StoresOf(entries, n) ==
    UNION { { [i \in 1..k |-> WithId(i, f[i])] : f \in [1..k -> entries] } : k \in 0..n }

\* Entries around the week of 2024-03-04: its weekdays (two entries each on
\* Tuesday and on Wednesday), its Saturday and Sunday, the Monday after it;
\* entries with a missing time, with a break longer than the span, with time
\* out before time in, and with a span that is no whole number of hundredths.
AggregateEntries ==
    { LogData(DaysFromCivil(2024, 3, 4), FormatTime(9, 0), FormatTime(17, 0), 30),
      LogData(DaysFromCivil(2024, 3, 5), EmptyStr, FormatTime(17, 0), 0),
      LogData(DaysFromCivil(2024, 3, 5), FormatTime(9, 0), EmptyStr, 15),
      LogData(Wednesday, FormatTime(8, 15), FormatTime(12, 0), 0),
      LogData(Wednesday, FormatTime(13, 0), FormatTime(13, 20), 90),
      LogData(DaysFromCivil(2024, 3, 7), FormatTime(17, 0), FormatTime(9, 0), 0),
      LogData(DaysFromCivil(2024, 3, 8), FormatTime(9, 0), FormatTime(9, 20), 0),
      LogData(DaysFromCivil(2024, 3, 9), FormatTime(9, 0), FormatTime(17, 0), 0),
      LogData(Sunday, FormatTime(9, 0), FormatTime(17, 0), 0),
      LogData(DaysFromCivil(2024, 3, 11), FormatTime(9, 0), FormatTime(17, 0), 0) }

InitAggregate ==
    InitWith(StoresOf(AggregateEntries, MaxAggregateLogs), StoredHolidayHours,
             {Wednesday, Sunday})

NextAggregate ==
    \/ AuthResolved
    \/ FirstSnapshot
    \/ \E hours \in HolidayInputs : handleSaveHolidayHours(hours)
    \/ \E newHours \in ManualInputs : handleUpdateWeeklyHours(newHours)

SpecAggregate == InitAggregate /\ [][NextAggregate]_vars

----------------------------------------------------------------------------
(* The history view over stored collections: SpecView *)

\* Entries of two years and three months, two of them in March 2024.
ViewEntries ==
    { LogData(DaysFromCivil(2023, 3, 6), FormatTime(9, 0), FormatTime(17, 0), 30),
      LogData(DaysFromCivil(2023, 12, 30), FormatTime(9, 0), FormatTime(17, 0), 30),
      LogData(DaysFromCivil(2024, 3, 5), FormatTime(9, 0), FormatTime(17, 0), 30),
      LogData(Wednesday, FormatTime(9, 0), FormatTime(17, 0), 30),
      LogData(DaysFromCivil(2024, 12, 1), FormatTime(9, 0), FormatTime(17, 0), 30) }

FilterYears == {EmptyStr, Pad4(2023), Pad4(2024)}

FilterMonths == {EmptyStr, Pad2(3), Pad2(12)}

FilterStartDates == {EmptyStr, FormatDate(DaysFromCivil(2024, 3, 5))}

FilterEndDates == {EmptyStr, FormatDate(Wednesday)}

InitView == InitWith(StoresOf(ViewEntries, MaxViewLogs), {0}, {Wednesday})

NextView ==
    \/ AuthResolved
    \/ FirstSnapshot
    \/ onSortToggle
    \/ \E y \in FilterYears : setFilterYear(y)
    \/ \E m \in FilterMonths : setFilterMonth(m)
    \/ \E d \in FilterStartDates : setFilterStartDate(d)
    \/ \E d \in FilterEndDates : setFilterEndDate(d)
    \/ handleClearFilters

SpecView == InitView /\ [][NextView]_vars

----------------------------------------------------------------------------
(* What the claims are stated with *)

Loaded == logs # Null

Docs == Val(logs)

\* x rounded to 2 decimals: the multiple of a hundredth of an hour nearest x.
NearestHundredth(x) ==
    IF (x % 60) < 30 THEN x - (x % 60) ELSE x - (x % 60) + 60

\* The clock times the entries of the model are written with.
ClockMinutes == {h * 60 + m : h \in 0..23, m \in {0, 15, 20}}

\* minutes(t): the minute of the day that is written t.
MinuteOf(t) == CHOOSE n \in ClockMinutes : FormatTime(n \div 60, n % 60) = t

\* hours(entry) as the Duration Calculator is specified, in units.
ExpectedHours(e) ==
    IF e.timeIn = EmptyStr \/ e.timeOut = EmptyStr THEN 0
    ELSE (MinuteOf(e.timeOut) - MinuteOf(e.timeIn) - e.breakMinutes) * 100

\* The number yyyymmdd of a date string: its chronological rank.
DateKey(d) ==
    ((DigitVal(d[1]) * 10 + DigitVal(d[2])) * 100 + DigitVal(d[3]) * 10 + DigitVal(d[4])) * 10000
        + (DigitVal(d[6]) * 10 + DigitVal(d[7])) * 100
        + DigitVal(d[9]) * 10 + DigitVal(d[10])

\* The Monday of the Monday-starting week that holds day z: day 4 was one.
MondayOf(z) == CHOOSE mon \in (z - 6)..z : ((mon - 4) % 7) = 0

\* The entry is dated on one of the Monday-to-Friday days of today's week.
OnWeekdayOfThisWeek(e) ==
    ParseISO(e.date) \in MondayOf(today)..(MondayOf(today) + 4)

RECURSIVE SumOver(_, _)
SumOver(f, indices) ==
    IF indices = {} THEN 0
    ELSE LET i == CHOOSE j \in indices : TRUE
         IN  f[i] + SumOver(f, indices \ {i})

\* The hours of the entries of docs at the given indices, added up.
HoursAt(docs, indices) ==
    SumOver([i \in DOMAIN docs |-> calculateHoursForLog(docs[i])], indices)

\* The dates of docs are pairwise distinct.
DistinctDates(docs) ==
    \A i, j \in DOMAIN docs : i # j => docs[i].date # docs[j].date

Reverse(q) == [i \in 1..Len(q) |-> q[Len(q) + 1 - i]]

Range(q) == {q[i] : i \in DOMAIN q}

----------------------------------------------------------------------------
(* The claims *)

\* C1: immediately after add-log, save-edited-log, delete-log or
\* save-holiday-hours, manualWeeklyHours is null, whatever it was before.
C1_OverrideClearedByLogActions ==
    last.op \in {"add", "update", "delete", "holiday"} => manualWeeklyHours = Null

\* C1 witness: the save of an edited log has just run on a set override.
C1_Witness ==
    /\ last.op = "update"
    /\ last.manual # Null
    /\ manualWeeklyHours = Null

\* C2 as claimed: whenever the override is set, the weekly value the
\* aggregator produced is the override, for every collection, loaded or not.
C2_OverrideIsWeekly ==
    manualWeeklyHours # Null => weeklyHours = Val(manualWeeklyHours)

\* C3 as claimed: once the collection is observed empty and the aggregator
\* has recomputed, savedHolidayHours is 0.
C3_EmptyCollectionResetsCarry ==
    (Loaded /\ Docs = <<>>) => savedHolidayHours = 0

\* C4 as claimed: once the snapshot that holds the delete of the last entry
\* is in, weekly is 0, under every interleaving with the other actions.
C4_DeleteLastForcesZero ==
    (last.op = "snapshot" /\ last.n = 1 /\ Loaded /\ Docs = <<>>) => weeklyHours = 0

\* C4 as amended: while the collection is empty and no override is set,
\* weekly is 0 whatever the carry was.
C4_EmptyWithoutOverrideIsZero ==
    (Loaded /\ Docs = <<>> /\ manualWeeklyHours = Null) => weeklyHours = 0

\* C4 witness: the snapshot of the delete of the last entry has come in, with
\* a carry above zero and no override, and weekly is 0.
C4_Witness ==
    /\ last.op = "snapshot"
    /\ last.n = 1
    /\ last.carry > 0
    /\ Loaded
    /\ Docs = <<>>
    /\ manualWeeklyHours = Null
    /\ weeklyHours = 0

\* C5 as claimed: for a non-empty collection with no override, weekly is the
\* sum of hours(entry) over all entries dated Monday to Friday of today's
\* week, plus the carry, rounded to 2 decimals.
C5_WeeklyIsSumOfWeekdayEntries ==
    (Loaded /\ Docs # <<>> /\ manualWeeklyHours = Null) =>
        weeklyHours =
            NearestHundredth(
                HoursAt(Docs, {i \in DOMAIN Docs : OnWeekdayOfThisWeek(Docs[i])})
                    + savedHolidayHours)

\* C5 as amended: the sum counts, for each date, only the first entry of the
\* collection with that date.
C5_WeeklyIsSumOfFirstWeekdayEntries ==
    (Loaded /\ Docs # <<>> /\ manualWeeklyHours = Null) =>
        weeklyHours =
            NearestHundredth(
                HoursAt(Docs, {i \in DOMAIN Docs :
                                  /\ OnWeekdayOfThisWeek(Docs[i])
                                  /\ \A j \in 1..(i - 1) : Docs[j].date # Docs[i].date})
                    + savedHolidayHours)

\* C5 witness: today is the Sunday that ends the week; the collection holds a
\* weekday entry of the week and an entry of the Monday after it, both with
\* hours; a carry is saved; weekly is no whole number of hundredths before
\* rounding.
C5_Witness ==
    /\ today = Sunday
    /\ Loaded
    /\ manualWeeklyHours = Null
    /\ savedHolidayHours > 0
    /\ \E i, j \in DOMAIN Docs :
          /\ OnWeekdayOfThisWeek(Docs[i])
          /\ (calculateHoursForLog(Docs[i]) % 60) # 0
          /\ ParseISO(Docs[j].date) = MondayOf(today) + 7
          /\ calculateHoursForLog(Docs[j]) > 0
    /\ weeklyHours # 0

\* C6: hours(entry) is 0 when timeIn or timeOut is missing, and otherwise
\* (minutes(timeOut) - minutes(timeIn) - breakMinutes) / 60, not clamped; the
\* daily value shown is that of the first entry dated today, or 0.
C6_HoursOfEntry ==
    /\ \A i \in DOMAIN store : calculateHoursForLog(store[i]) = ExpectedHours(store[i])
    /\ Loaded =>
          dailyHours =
              IF \E i \in DOMAIN Docs : Docs[i].date = FormatDate(today)
              THEN ExpectedHours(
                       Docs[CHOOSE i \in DOMAIN Docs :
                               /\ Docs[i].date = FormatDate(today)
                               /\ \A j \in 1..(i - 1) : Docs[j].date # FormatDate(today)])
              ELSE 0

\* C6 witness: today's entry has a break longer than its span, so the daily
\* value is negative; another entry has time out before time in and negative
\* hours.
C6_Witness ==
    /\ Loaded
    /\ dailyHours < 0
    /\ \E i \in DOMAIN Docs :
          /\ Docs[i].date = FormatDate(today)
          /\ MinuteOf(Docs[i].timeOut) > MinuteOf(Docs[i].timeIn)
          /\ dailyHours = calculateHoursForLog(Docs[i])
    /\ \E i \in DOMAIN Docs :
          /\ Docs[i].timeIn # EmptyStr
          /\ Docs[i].timeOut # EmptyStr
          /\ MinuteOf(Docs[i].timeOut) < MinuteOf(Docs[i].timeIn)
          /\ calculateHoursForLog(Docs[i]) < 0

\* A log satisfies every filter condition that is set.
Satisfies(e) ==
    /\ filterYear = EmptyStr \/ SubSeq(e.date, 1, 4) = filterYear
    /\ filterMonth = EmptyStr \/ SubSeq(e.date, 6, 7) = filterMonth
    /\ filterStartDate = EmptyStr \/ DateKey(e.date) >= DateKey(filterStartDate)
    /\ filterEndDate = EmptyStr \/ DateKey(e.date) <= DateKey(filterEndDate)

\* C7: the visible logs are exactly the logs that satisfy every set filter
\* condition, none dropped and none twice; with only year and month set they
\* are the logs whose date starts with "<year>-<month>".
C7_VisibleIsFiltered ==
    Loaded =>
        /\ Range(filteredAndSortedLogs) = {e \in Range(Docs) : Satisfies(e)}
        /\ Len(filteredAndSortedLogs) = Cardinality({e \in Range(Docs) : Satisfies(e)})
        /\ (/\ filterYear # EmptyStr
            /\ filterMonth # EmptyStr
            /\ filterStartDate = EmptyStr
            /\ filterEndDate = EmptyStr)
           => Range(filteredAndSortedLogs) =
                  {e \in Range(Docs) :
                      SubSeq(e.date, 1, 7) = filterYear \o <<45>> \o filterMonth}

\* C7 witness: year, month and both date bounds are set, a visible log is
\* dated on the start date and one on the end date, and a log is filtered out.
C7_Witness ==
    /\ Loaded
    /\ filterYear # EmptyStr
    /\ filterMonth # EmptyStr
    /\ \E i \in DOMAIN filteredAndSortedLogs :
          filteredAndSortedLogs[i].date = filterStartDate
    /\ \E i \in DOMAIN filteredAndSortedLogs :
          filteredAndSortedLogs[i].date = filterEndDate
    /\ Len(filteredAndSortedLogs) < Len(Docs)

\* The view of the loaded logs under the filters of the state, in an order.
ViewIn(order) ==
    View(logs, order, filterYear, filterMonth, filterStartDate, filterEndDate)

\* C8: for logs with pairwise distinct dates, the views under 'asc' and
\* under 'desc' hold the same entries, each is the reverse of the other, and
\* 'asc' is in chronological order.
C8_AscIsReverseOfDesc ==
    (Loaded /\ DistinctDates(Docs)) =>
        /\ Range(ViewIn("asc")) = Range(ViewIn("desc"))
        /\ Len(ViewIn("asc")) = Len(ViewIn("desc"))
        /\ ViewIn("desc") = Reverse(ViewIn("asc"))
        /\ \A i, j \in DOMAIN ViewIn("asc") :
              i < j => DateKey(ViewIn("asc")[i].date) <= DateKey(ViewIn("asc")[j].date)
        /\ filteredAndSortedLogs = ViewIn(sortOrder)

\* C8 witness: the sort order has been toggled to 'asc' over three visible
\* logs of distinct dates that the store lists in another order.
C8_Witness ==
    /\ Loaded
    /\ DistinctDates(Docs)
    /\ sortOrder = "asc"
    /\ last.op = "sort"
    /\ Len(filteredAndSortedLogs) = 3
    /\ filteredAndSortedLogs # Docs
    /\ Reverse(filteredAndSortedLogs) # Docs

\* C9 as claimed: after 'set holiday hours' with h, the carry is its previous
\* value plus h, rounded to 2 decimals.
C9_HolidayAddsToCarry ==
    last.op = "holiday" => savedHolidayHours = NearestHundredth(last.carry + last.arg)

\* C9 as amended: after 'set holiday hours' with h the carry is its previous
\* value plus h, rounded to 2 decimals, unless the loaded collection is
\* empty, and then it is 0; the action leaves the collection, the writes in
\* flight, the editing state, the filters and the sort order as they were;
\* the carry is never negative.
C9_HolidayAddsToCarryUnlessEmpty ==
    /\ [](savedHolidayHours >= 0)
    /\ [](last.op = "holiday" =>
             savedHolidayHours =
                 IF Loaded /\ Docs = <<>> THEN 0
                 ELSE NearestHundredth(last.carry + last.arg))
    /\ [][last'.op = "holiday" =>
             UNCHANGED <<store, logs, pending, editingLog, filters, sortOrder>>]_vars

\* C9 witness: holiday hours that round up have just been added to a carry
\* above zero, over a non-empty collection, with a filter set and the sort
\* order toggled.
C9_Witness ==
    /\ last.op = "holiday"
    /\ last.carry > 0
    /\ (last.arg % 60) >= 30
    /\ Loaded
    /\ Docs # <<>>
    /\ savedHolidayHours = NearestHundredth(last.carry + last.arg)
    /\ savedHolidayHours > last.carry
    /\ filterYear # EmptyStr
    /\ sortOrder = "asc"

\* C10 as claimed: the snapshot that holds the save of an edited entry has
\* as many entries as the one before it.
C10_SaveOfEditedKeepsCount ==
    [][(Loaded /\ pending # <<>> /\ Head(pending).op = "set" /\ pending' = Tail(pending))
          => Len(store') = Len(store)]_vars

====
